---------------------------- MODULE Spec2Model ----------------------------
(***************************************************************************)
(* Model of the voice-assistant command interpreter of src/siri.py: the    *)
(* session loop of main(), handle_system_commands, parse_search_command,   *)
(* open_with_search, open_command and fuzzy_match; and of the command       *)
(* endpoint of src/siri_web_server.py, which calls the same interpreter.   *)
(*                                                                         *)
(* Text is modelled as a sequence of one-character strings, so that the    *)
(* substring tests, str.replace, str.strip and urllib's quote_plus of the  *)
(* source are computed character by character.                             *)
(***************************************************************************)
EXTENDS Integers, Sequences, FiniteSets, TLC

\* ---------------- tables of src/siri.py ----------------
WAKE_WORD ==  \* "siri"
    <<"s","i","r","i">>
APP_MAP_Darwin ==  \* get_app_map, macOS
    << [key |-> <<"c","h","r","o","m","e">>,  \* "chrome": "Google Chrome"
        val |-> <<"G","o","o","g","l","e"," ","C","h","r","o","m","e">>],
       [key |-> <<"s","p","o","t","i","f","y">>,  \* "spotify": "Spotify"
        val |-> <<"S","p","o","t","i","f","y">>],
       [key |-> <<"s","a","f","a","r","i">>,  \* "safari": "Safari"
        val |-> <<"S","a","f","a","r","i">>],
       [key |-> <<"f","i","r","e","f","o","x">>,  \* "firefox": "Firefox"
        val |-> <<"F","i","r","e","f","o","x">>],
       [key |-> <<"c","o","d","e">>,  \* "code": "Visual Studio Code"
        val |-> <<"V","i","s","u","a","l"," ","S","t","u","d","i","o"," ","C","o","d","e">>],
       [key |-> <<"t","e","r","m","i","n","a","l">>,  \* "terminal": "Terminal"
        val |-> <<"T","e","r","m","i","n","a","l">>] >>
APP_MAP_Windows ==  \* get_app_map, Windows
    << [key |-> <<"c","h","r","o","m","e">>,  \* "chrome": "chrome.exe"
        val |-> <<"c","h","r","o","m","e",".","e","x","e">>],
       [key |-> <<"s","p","o","t","i","f","y">>,  \* "spotify": "Spotify.exe"
        val |-> <<"S","p","o","t","i","f","y",".","e","x","e">>],
       [key |-> <<"f","i","r","e","f","o","x">>,  \* "firefox": "firefox.exe"
        val |-> <<"f","i","r","e","f","o","x",".","e","x","e">>],
       [key |-> <<"c","o","d","e">>,  \* "code": "Code.exe"
        val |-> <<"C","o","d","e",".","e","x","e">>],
       [key |-> <<"n","o","t","e","p","a","d">>,  \* "notepad": "notepad.exe"
        val |-> <<"n","o","t","e","p","a","d",".","e","x","e">>] >>
APP_MAP_Linux ==  \* get_app_map, Linux
    << [key |-> <<"c","h","r","o","m","e">>,  \* "chrome": "google-chrome"
        val |-> <<"g","o","o","g","l","e","-","c","h","r","o","m","e">>],
       [key |-> <<"f","i","r","e","f","o","x">>,  \* "firefox": "firefox"
        val |-> <<"f","i","r","e","f","o","x">>],
       [key |-> <<"s","p","o","t","i","f","y">>,  \* "spotify": "spotify"
        val |-> <<"s","p","o","t","i","f","y">>],
       [key |-> <<"c","o","d","e">>,  \* "code": "code"
        val |-> <<"c","o","d","e">>],
       [key |-> <<"t","e","r","m","i","n","a","l">>,  \* "terminal": "gnome-terminal"
        val |-> <<"g","n","o","m","e","-","t","e","r","m","i","n","a","l">>] >>
WEB_DEFAULTS ==  \* site name -> URL
    << [key |-> <<"y","o","u","t","u","b","e">>,  \* "youtube": "https://youtube.com"
        val |-> <<"h","t","t","p","s",":","/","/","y","o","u","t","u","b","e",".","c","o","m">>],
       [key |-> <<"g","m","a","i","l">>,  \* "gmail": "https://mail.google.com"
        val |-> <<"h","t","t","p","s",":","/","/","m","a","i","l",".","g","o","o","g","l","e",".","c","o","m">>],
       [key |-> <<"g","o","o","g","l","e">>,  \* "google": "https://google.com"
        val |-> <<"h","t","t","p","s",":","/","/","g","o","o","g","l","e",".","c","o","m">>],
       [key |-> <<"f","a","c","e","b","o","o","k">>,  \* "facebook": "https://facebook.com"
        val |-> <<"h","t","t","p","s",":","/","/","f","a","c","e","b","o","o","k",".","c","o","m">>],
       [key |-> <<"t","w","i","t","t","e","r">>,  \* "twitter": "https://twitter.com"
        val |-> <<"h","t","t","p","s",":","/","/","t","w","i","t","t","e","r",".","c","o","m">>],
       [key |-> <<"g","i","t","h","u","b">>,  \* "github": "https://github.com"
        val |-> <<"h","t","t","p","s",":","/","/","g","i","t","h","u","b",".","c","o","m">>],
       [key |-> <<"s","t","a","c","k","o","v","e","r","f","l","o","w">>,  \* "stackoverflow": "https://stackoverflow.com"
        val |-> <<"h","t","t","p","s",":","/","/","s","t","a","c","k","o","v","e","r","f","l","o","w",".","c","o","m">>],
       [key |-> <<"n","e","t","f","l","i","x">>,  \* "netflix": "https://netflix.com"
        val |-> <<"h","t","t","p","s",":","/","/","n","e","t","f","l","i","x",".","c","o","m">>],
       [key |-> <<"a","m","a","z","o","n">>,  \* "amazon": "https://amazon.com"
        val |-> <<"h","t","t","p","s",":","/","/","a","m","a","z","o","n",".","c","o","m">>],
       [key |-> <<"r","e","d","d","i","t">>,  \* "reddit": "https://reddit.com"
        val |-> <<"h","t","t","p","s",":","/","/","r","e","d","d","i","t",".","c","o","m">>],
       [key |-> <<"i","n","s","t","a","g","r","a","m">>,  \* "instagram": "https://instagram.com"
        val |-> <<"h","t","t","p","s",":","/","/","i","n","s","t","a","g","r","a","m",".","c","o","m">>],
       [key |-> <<"l","i","n","k","e","d","i","n">>,  \* "linkedin": "https://linkedin.com"
        val |-> <<"h","t","t","p","s",":","/","/","l","i","n","k","e","d","i","n",".","c","o","m">>],
       [key |-> <<"w","h","a","t","s","a","p","p">>,  \* "whatsapp": "https://web.whatsapp.com"
        val |-> <<"h","t","t","p","s",":","/","/","w","e","b",".","w","h","a","t","s","a","p","p",".","c","o","m">>],
       [key |-> <<"d","i","s","c","o","r","d">>,  \* "discord": "https://discord.com"
        val |-> <<"h","t","t","p","s",":","/","/","d","i","s","c","o","r","d",".","c","o","m">>],
       [key |-> <<"n","o","t","i","o","n">>,  \* "notion": "https://notion.so"
        val |-> <<"h","t","t","p","s",":","/","/","n","o","t","i","o","n",".","s","o">>],
       [key |-> <<"c","h","a","t","g","p","t">>,  \* "chatgpt": "https://chat.openai.com"
        val |-> <<"h","t","t","p","s",":","/","/","c","h","a","t",".","o","p","e","n","a","i",".","c","o","m">>],
       [key |-> <<"c","l","a","u","d","e">>,  \* "claude": "https://claude.ai"
        val |-> <<"h","t","t","p","s",":","/","/","c","l","a","u","d","e",".","a","i">>],
       [key |-> <<"s","p","o","t","i","f","y">>,  \* "spotify": "https://open.spotify.com"
        val |-> <<"h","t","t","p","s",":","/","/","o","p","e","n",".","s","p","o","t","i","f","y",".","c","o","m">>] >>
SEARCH_PATTERNS ==  \* platform -> search URL prefix
    << [key |-> <<"y","o","u","t","u","b","e">>,  \* "youtube": "https://www.youtube.com/results?search_query="
        val |-> <<"h","t","t","p","s",":","/","/","w","w","w",".","y","o","u","t","u","b","e",".","c","o","m","/","r","e","s","u","l","t","s","?","s","e","a","r","c","h","_","q","u","e","r","y","=">>],
       [key |-> <<"s","p","o","t","i","f","y">>,  \* "spotify": "https://open.spotify.com/search/"
        val |-> <<"h","t","t","p","s",":","/","/","o","p","e","n",".","s","p","o","t","i","f","y",".","c","o","m","/","s","e","a","r","c","h","/">>],
       [key |-> <<"g","o","o","g","l","e">>,  \* "google": "https://www.google.com/search?q="
        val |-> <<"h","t","t","p","s",":","/","/","w","w","w",".","g","o","o","g","l","e",".","c","o","m","/","s","e","a","r","c","h","?","q","=">>],
       [key |-> <<"a","m","a","z","o","n">>,  \* "amazon": "https://www.amazon.com/s?k="
        val |-> <<"h","t","t","p","s",":","/","/","w","w","w",".","a","m","a","z","o","n",".","c","o","m","/","s","?","k","=">>],
       [key |-> <<"n","e","t","f","l","i","x">>,  \* "netflix": "https://www.netflix.com/search?q="
        val |-> <<"h","t","t","p","s",":","/","/","w","w","w",".","n","e","t","f","l","i","x",".","c","o","m","/","s","e","a","r","c","h","?","q","=">>] >>
filler_words ==  \* the words clean_cmd drops, in order
    << <<"o","p","e","n">>,  \* "open"
       <<"l","a","u","n","c","h">>,  \* "launch"
       <<"s","t","a","r","t">>,  \* "start"
       <<"s","i","r","i">>,  \* "siri"
       <<"p","l","e","a","s","e">> >>  \* "please"
search_keywords ==  \* parse_search_command
    << <<"p","l","a","y">>,  \* "play"
       <<"s","e","a","r","c","h">>,  \* "search"
       <<"f","i","n","d">>,  \* "find"
       <<"l","o","o","k"," ","f","o","r">>,  \* "look for"
       <<"s","h","o","w"," ","m","e">>,  \* "show me"
       <<"w","a","t","c","h">>,  \* "watch"
       <<"l","i","s","t","e","n"," ","t","o">>,  \* "listen to"
       <<"l","i","s","t","e","n">>,  \* "listen"
       <<"w","a","t","c","h">> >>  \* "watch"
video_words ==  \* platform default heuristic
    << <<"v","i","d","e","o">>,  \* "video"
       <<"v","i","d","e","o","s">>,  \* "videos"
       <<"w","a","t","c","h">>,  \* "watch"
       <<"m","o","v","i","e">>,  \* "movie"
       <<"s","o","n","g">>,  \* "song"
       <<"m","u","s","i","c">> >>  \* "music"
common_words ==  \* removed from the query, in order
    << <<"a","n","d">>,  \* "and"
       <<"f","o","r">>,  \* "for"
       <<"s","o","m","e">>,  \* "some"
       <<"a">>,  \* "a"
       <<"t","h","e">> >>  \* "the"
shutdown_keywords ==  \* handle_system_commands
    << <<"s","h","u","t","d","o","w","n">>,  \* "shutdown"
       <<"s","t","o","p">>,  \* "stop"
       <<"q","u","i","t">>,  \* "quit"
       <<"e","x","i","t">>,  \* "exit"
       <<"b","y","e">>,  \* "bye"
       <<"g","o","o","d","b","y","e">>,  \* "goodbye"
       <<"s","l","e","e","p">> >>  \* "sleep"
help_phrases ==  \* handle_system_commands
    << <<"h","e","l","p">>,  \* "help"
       <<"w","h","a","t"," ","c","a","n"," ","y","o","u"," ","d","o">> >>  \* "what can you do"
route_keywords ==  \* main, open/search test
    << <<"o","p","e","n">>,  \* "open"
       <<"p","l","a","y">>,  \* "play"
       <<"s","e","a","r","c","h">>,  \* "search"
       <<"f","i","n","d">>,  \* "find"
       <<"w","a","t","c","h">>,  \* "watch"
       <<"l","i","s","t","e","n">>,  \* "listen"
       <<"l","a","u","n","c","h">>,  \* "launch"
       <<"s","t","a","r","t">> >>  \* "start"
w_http ==  \* "http"
    <<"h","t","t","p">>
w_https_prefix ==  \* "https://"
    <<"h","t","t","p","s",":","/","/">>
w_dot ==  \* "."
    <<".">>

\* ---------------- character tables ----------------
UpperAlpha ==  \* "ABCDEFGHIJKLMNOPQRSTUVWXYZ"
    <<"A","B","C","D","E","F","G","H","I","J","K","L","M","N","O","P","Q","R","S","T","U","V",
        "W","X","Y","Z">>
LowerAlpha ==  \* "abcdefghijklmnopqrstuvwxyz"
    <<"a","b","c","d","e","f","g","h","i","j","k","l","m","n","o","p","q","r","s","t","u","v",
        "w","x","y","z">>
Digits ==  \* "0123456789"
    <<"0","1","2","3","4","5","6","7","8","9">>
HexDigits ==  \* "0123456789ABCDEF"
    <<"0","1","2","3","4","5","6","7","8","9","A","B","C","D","E","F">>
Ascii ==  \* the printable ASCII characters, codes 32 to 126, in order (the double
          \* quote and the backtick are named, they occur in no text of the model)
    <<" ","!","dquote","#","$","%","&","'","(",")","*","+",",","-",".","/","0","1","2","3","4","5",
        "6","7","8","9",":",";","<","=",">","?","@","A","B","C","D","E","F","G","H","I","J","K",
        "L","M","N","O","P","Q","R","S","T","U","V","W","X","Y","Z","[","\\","]","^","_","backtick",
        "a","b","c","d","e","f","g","h","i","j","k","l","m","n","o","p","q","r","s","t","u","v",
        "w","x","y","z","{","|","}","~">>

\* ---------------- Python string operations ----------------

\* c in string.whitespace, restricted to the alphabet of the model
IsSpace(c) == c = " "

\* the position of c in the table tab, 0 when it is not in it
IndexIn(c, tab) ==
    IF \E i \in 1..Len(tab) : tab[i] = c
    THEN CHOOSE i \in 1..Len(tab) : tab[i] = c
    ELSE 0

UpperSet == {UpperAlpha[i] : i \in 1..Len(UpperAlpha)}

AlnumSet ==
    UpperSet \cup {LowerAlpha[i] : i \in 1..Len(LowerAlpha)}
             \cup {Digits[i] : i \in 1..Len(Digits)}

\* the lowercase letter of each uppercase letter
LowerMap == [c \in UpperSet |-> LowerAlpha[IndexIn(c, UpperAlpha)]]

LowerChar(c) == IF c \in UpperSet THEN LowerMap[c] ELSE c

\* str.lower()
Lower(s) == [i \in 1..Len(s) |-> LowerChar(s[i])]

\* str.strip()
Strip(s) ==
    IF \A i \in 1..Len(s) : IsSpace(s[i])
    THEN << >>
    ELSE LET first == CHOOSE i \in 1..Len(s) :
                          /\ ~IsSpace(s[i])
                          /\ \A j \in 1..(i - 1) : IsSpace(s[j])
             last  == CHOOSE i \in 1..Len(s) :
                          /\ ~IsSpace(s[i])
                          /\ \A j \in (i + 1)..Len(s) : IsSpace(s[j])
         IN  SubSeq(s, first, last)

\* sub in s
Contains(s, sub) ==
    \E i \in 1..(Len(s) - Len(sub) + 1) : SubSeq(s, i, i + Len(sub) - 1) = sub

\* s.startswith(pre)
StartsWith(s, pre) == Len(s) >= Len(pre) /\ SubSeq(s, 1, Len(pre)) = pre

\* any(w in s for w in words)
ContainsAny(s, words) == \E i \in 1..Len(words) : Contains(s, words[i])

\* s.replace(old, new) for a non-empty old: every non-overlapping occurrence,
\* leftmost first
RECURSIVE Replace(_, _, _)
Replace(s, old, new) ==
    IF Len(s) < Len(old) THEN s
    ELSE IF SubSeq(s, 1, Len(old)) = old
         THEN new \o Replace(SubSeq(s, Len(old) + 1, Len(s)), old, new)
         ELSE <<Head(s)>> \o Replace(Tail(s), old, new)

\* s.replace(words[1], "").replace(words[2], "") ... in the order of words
RECURSIVE RemoveAll(_, _)
RemoveAll(s, words) ==
    IF words = << >> THEN s
    ELSE RemoveAll(Replace(s, Head(words), << >>), Tail(words))

\* the keys of a table, in insertion order
Keys(table) == [i \in 1..Len(table) |-> table[i].key]

HasKey(table, k) == \E i \in 1..Len(table) : table[i].key = k

\* table[k]
Lookup(table, k) == table[CHOOSE i \in 1..Len(table) : table[i].key = k].val

\* ---------------- texts the speech source can return ----------------
t_empty ==  \* ""
    << >>
t_a ==  \* "a"
    <<"a">>
t_blank_a ==  \* " a "
    <<" ","a"," ">>
t_hello ==  \* "hello"
    <<"h","e","l","l","o">>
t_siri ==  \* "siri"
    <<"s","i","r","i">>
t_hey_siri_stop ==  \* "hey siri stop"
    <<"h","e","y"," ","s","i","r","i"," ","s","t","o","p">>
t_siri_open_spotify ==  \* "siri open spotify"
    <<"s","i","r","i"," ","o","p","e","n"," ","s","p","o","t","i","f","y">>
t_open_youtube_find ==  \* "open youtube and find cooking videos"
    <<"o","p","e","n"," ","y","o","u","t","u","b","e"," ","a","n","d"," ","f","i","n","d"," ",
        "c","o","o","k","i","n","g"," ","v","i","d","e","o","s">>
t_shutdown ==  \* "shutdown"
    <<"s","h","u","t","d","o","w","n">>
t_open_stopwatch ==  \* "open stopwatch"
    <<"o","p","e","n"," ","s","t","o","p","w","a","t","c","h">>
t_quit_help ==  \* "quit help"
    <<"q","u","i","t"," ","h","e","l","p">>
t_search_exit ==  \* "search exit on google"
    <<"s","e","a","r","c","h"," ","e","x","i","t"," ","o","n"," ","g","o","o","g","l","e">>
t_bye ==  \* "bye"
    <<"b","y","e">>
t_goodbye ==  \* "goodbye"
    <<"g","o","o","d","b","y","e">>
t_go_to_sleep ==  \* "go to sleep"
    <<"g","o"," ","t","o"," ","s","l","e","e","p">>
t_help ==  \* "help"
    <<"h","e","l","p">>
t_help_open_chrome ==  \* "help open chrome"
    <<"h","e","l","p"," ","o","p","e","n"," ","c","h","r","o","m","e">>
t_what_can_you_do ==  \* "what can you do"
    <<"w","h","a","t"," ","c","a","n"," ","y","o","u"," ","d","o">>
t_search_for ==  \* "search for"
    <<"s","e","a","r","c","h"," ","f","o","r">>
t_open_zzz ==  \* "open zzzznotarealapp"
    <<"o","p","e","n"," ","z","z","z","z","n","o","t","a","r","e","a","l","a","p","p">>
t_play_jazz ==  \* "play jazz"
    <<"p","l","a","y"," ","j","a","z","z">>
t_show_me_cats ==  \* "show me cats"
    <<"s","h","o","w"," ","m","e"," ","c","a","t","s">>
t_spotify ==  \* "spotify"
    <<"s","p","o","t","i","f","y">>
t_open_example_com ==  \* "open example.com"
    <<"o","p","e","n"," ","e","x","a","m","p","l","e",".","c","o","m">>
t_search_cpp ==  \* "search c++ & more"
    <<"s","e","a","r","c","h"," ","c","+","+"," ","&"," ","m","o","r","e">>
t_find_amazon_google ==  \* "find amazon on google"
    <<"f","i","n","d"," ","a","m","a","z","o","n"," ","o","n"," ","g","o","o","g","l","e">>
t_watch ==  \* "watch"
    <<"w","a","t","c","h">>
t_gmail ==  \* "gmail"
    <<"g","m","a","i","l">>
t_tell_me_more ==  \* "tell me more"
    <<"t","e","l","l"," ","m","e"," ","m","o","r","e">>
t_play_lofi_spotify ==  \* "play lofi on spotify"
    <<"p","l","a","y"," ","l","o","f","i"," ","o","n"," ","s","p","o","t","i","f","y">>
t_search_amazon_shoes ==  \* "search amazon for shoes"
    <<"s","e","a","r","c","h"," ","a","m","a","z","o","n"," ","f","o","r"," ","s","h","o","e",
        "s">>
t_netflix_watch_dark ==  \* "watch dark on netflix"
    <<"w","a","t","c","h"," ","d","a","r","k"," ","o","n"," ","n","e","t","f","l","i","x">>
\* what the speech source returns while the loop waits for the wake word
WakeUtterances ==
    { t_empty, t_a, t_blank_a, t_hello, t_shutdown, t_siri, t_hey_siri_stop }

\* what it returns when the loop listens for the command
CommandUtterances ==
    { t_empty, t_a, t_blank_a, t_hello, t_siri, t_hey_siri_stop, t_siri_open_spotify,
      t_open_youtube_find, t_shutdown, t_open_stopwatch, t_quit_help, t_search_exit,
      t_bye, t_goodbye, t_go_to_sleep, t_help, t_help_open_chrome, t_what_can_you_do,
      t_search_for, t_open_zzz, t_play_jazz, t_show_me_cats, t_spotify,
      t_open_example_com, t_search_cpp, t_find_amazon_google, t_watch, t_gmail,
      t_tell_me_more, t_play_lofi_spotify, t_search_amazon_shoes,
      t_netflix_watch_dark }

\* ---------------- inputs of the parser on its own ----------------

\* the most words of a parser input
MaxWords == 2

ParserWords ==
    { <<"p","l","a","y">>,  \* "play"
      <<"F","i","n","d">>,  \* "Find"
      <<"l","o","o","k"," ","f","o","r">>,  \* "look for"
      <<"s","h","o","w"," ","m","e">>,  \* "show me"
      <<"l","i","s","t","e","n"," ","t","o">>,  \* "listen to"
      <<"o","p","e","n">>,  \* "open"
      <<"y","o","u","t","u","b","e">>,  \* "youtube"
      <<"a","m","a","z","o","n">>,  \* "amazon"
      <<"m","u","s","i","c">>,  \* "music"
      <<"j","a","z","z">>,  \* "jazz"
      <<"t","h","e">>,  \* "the"
      <<"g","m","a","i","l">> }  \* "gmail"

\* the texts of n words of ParserWords, joined by blanks
RECURSIVE WordTexts(_)
WordTexts(n) ==
    IF n = 1 THEN ParserWords
    ELSE {t \o <<" ">> \o w : t \in WordTexts(n - 1), w \in ParserWords}

\* the inputs of the parser: the texts of up to MaxWords words and the commands
\* of the session loop
ParserInputs == UNION {WordTexts(n) : n \in 1..MaxWords} \cup CommandUtterances

\* ---------------- optional values (Python None) ----------------

None == [isNone |-> TRUE]

Some(v) == [isNone |-> FALSE, val |-> v]

\* Python truthiness of an optional string: neither None nor ""
Truthy(o) == ~o.isNone /\ o.val # << >>

\* ---------------- the command parser ----------------

\* the cleaned command of parse_search_command, which the function computes
\* and then never reads
clean_cmd(cmd) == Strip(RemoveAll(Strip(Lower(cmd)), filler_words))

\* the search test with the one-word keywords of main() only
has_search_OneWord(cmd) == ContainsAny(cmd, route_keywords)

has_search(cmd) == ContainsAny(cmd, search_keywords)

\* platform detection that takes the last platform of SEARCH_PATTERNS named in cmd
DetectPlatform_LastInTable(cmd) ==
    IF \E i \in 1..Len(SEARCH_PATTERNS) : Contains(cmd, SEARCH_PATTERNS[i].key)
    THEN SEARCH_PATTERNS[CHOOSE i \in 1..Len(SEARCH_PATTERNS) :
                            /\ Contains(cmd, SEARCH_PATTERNS[i].key)
                            /\ \A j \in (i + 1)..Len(SEARCH_PATTERNS) :
                                  ~Contains(cmd, SEARCH_PATTERNS[j].key)].key
    ELSE IF ContainsAny(cmd, video_words)
         THEN SEARCH_PATTERNS[1].key
         ELSE SEARCH_PATTERNS[3].key

\* the first platform of SEARCH_PATTERNS named in cmd, else the default
DetectPlatform(cmd) ==
    IF \E i \in 1..Len(SEARCH_PATTERNS) : Contains(cmd, SEARCH_PATTERNS[i].key)
    THEN SEARCH_PATTERNS[CHOOSE i \in 1..Len(SEARCH_PATTERNS) :
                            /\ Contains(cmd, SEARCH_PATTERNS[i].key)
                            /\ \A j \in 1..(i - 1) :
                                  ~Contains(cmd, SEARCH_PATTERNS[j].key)].key
    ELSE IF ContainsAny(cmd, video_words)
         THEN SEARCH_PATTERNS[1].key     \* "youtube"
         ELSE SEARCH_PATTERNS[3].key     \* "google"

\* the query without the removal of the common words
ExtractQuery_KeepCommon(cmd, platform) ==
    Strip(RemoveAll(cmd, search_keywords \o <<platform>>))

\* the search query left of cmd for the platform
ExtractQuery(cmd, platform) ==
    Strip(RemoveAll(RemoveAll(cmd, search_keywords \o <<platform>>), common_words))

\* parse_search_command(cmd) -> (platform, query, remaining_cmd)
parse_search_command(cmd0) ==
    LET cmd == Strip(Lower(cmd0)) IN
    IF ~has_search(cmd)
    THEN [platform |-> None, query |-> None, remaining |-> Some(cmd)]
    ELSE LET platform == DetectPlatform(cmd)
             query    == ExtractQuery(cmd, platform)
         IN  IF query = << >>
             THEN [platform |-> Some(platform), query |-> None, remaining |-> None]
             ELSE [platform |-> Some(platform), query |-> Some(query),
                   remaining |-> None]

\* ---------------- the search URL ----------------

\* the characters urllib never quotes
IsUnreserved(c) == c \in AlnumSet \/ c \in {"_", ".", "-", "~"}

\* the character code of c
Ord(c) == IndexIn(c, Ascii) + 31

\* quoting that takes "+" for a safe character
QuoteChar_PlusSafe(c) ==
    IF c = " " THEN <<"+">>
    ELSE IF IsUnreserved(c) \/ c = "+" THEN <<c>>
    ELSE <<"%", HexDigits[(Ord(c) \div 16) + 1], HexDigits[(Ord(c) % 16) + 1]>>

QuoteChar(c) ==
    IF c = " " THEN <<"+">>
    ELSE IF IsUnreserved(c) THEN <<c>>
    ELSE <<"%", HexDigits[(Ord(c) \div 16) + 1], HexDigits[(Ord(c) % 16) + 1]>>

\* urllib.parse.quote_plus(s)
RECURSIVE quote_plus(_)
quote_plus(s) ==
    IF s = << >> THEN << >> ELSE QuoteChar(Head(s)) \o quote_plus(Tail(s))

\* the URL open_with_search hands to the browser
search_url(platform, query) == Lookup(SEARCH_PATTERNS, platform) \o quote_plus(query)

\* ---------------- the fuzzy resolver ----------------

\* the acceptance threshold of fuzzy_match
THRESHOLD == 60

\* The similarity scores (0..100) the scorer of fuzzywuzzy can give to a
\* candidate that differs from the query: representative values around the
\* threshold.
ScoreSet == {0, THRESHOLD - 1, THRESHOLD, 90}

IsAlnum(c) == c \in AlnumSet

\* fuzzywuzzy's default processor: non-alphanumerics to blanks, lower, strip
full_process(s) ==
    Strip(Lower([i \in 1..Len(s) |-> IF IsAlnum(s[i]) THEN s[i] ELSE " "]))

\* The scores process.extractOne can compute for the choices, one per choice.
\* The scorer is a library outside this repository: the model gives 100 to a
\* choice equal to the processed query, lets one other choice get any score
\* of ScoreSet, and gives 0 to the rest.
ScoreTables(query, choices) ==
    LET pq == full_process(query)
        pc == [i \in 1..Len(choices) |-> full_process(choices[i])]
    IN  {[i \in 1..Len(choices) |->
             IF pc[i] = pq THEN 100 ELSE IF i = k THEN s ELSE 0] :
         k \in 1..Len(choices), s \in ScoreSet}

\* process.extractOne(query, choices): the first of the best-scoring choices
extractOne(choices, scores) ==
    LET best == CHOOSE i \in 1..Len(choices) :
                    /\ \A j \in 1..Len(choices) : scores[j] <= scores[i]
                    /\ \A j \in 1..(i - 1) : scores[j] < scores[i]
    IN  [match |-> choices[best], score |-> scores[best]]

\* a resolver that accepts only a score above the threshold
fuzzy_match_Above(query, choices, scores) ==
    IF Strip(query) = << >> THEN None
    ELSE LET r == extractOne(choices, scores)
         IN  IF r.score > THRESHOLD THEN Some(r.match) ELSE None

\* fuzzy_match(query, choices), given the scores of the choices
fuzzy_match(query, choices, scores) ==
    IF Strip(query) = << >> THEN None
    ELSE LET r == extractOne(choices, scores)
         IN  IF r.score >= THRESHOLD THEN Some(r.match) ELSE None

\* what fuzzy_match(query, choices) can return, over the scores the library
\* can give
FuzzyResults(query, choices) ==
    {fuzzy_match(query, choices, scores) : scores \in ScoreTables(query, choices)}

\* ---------------- the state ----------------

VARIABLES
    system,      \* platform.system(): "Darwin", "Windows" or "Linux"
    vosk_model,  \* whether the offline model was found at start-up
    state,       \* where the session loop is
    text,        \* the wake-phase text of main()
    cmd,         \* the command-phase text of main()
    primary,     \* what listen_google returned in the latest capture
    engines,     \* the speech engines the latest capture invoked, in order
    said,        \* what speak() announced since the latest wake-phase capture began
    launches,    \* the launch operations requested since then, with their outcome
    calls,       \* the interpreter functions invoked since then, in order
    parsed,      \* what parse_search_command returned since then, if it ran
    fails,       \* consecutive command captures that heard nothing
    last,        \* the step the loop took last
    threaded,    \* web server: whether each request is handled in a thread of its own
    requests     \* web server: the requests to /api/command, each with its position

vars == <<system, vosk_model, state, text, cmd, primary, engines, said, launches,
          calls, parsed, fails, last, threaded, requests>>

\* the most consecutive failed command captures the model follows
MaxFails == 2

APP_MAP ==
    IF system = "Darwin" THEN APP_MAP_Darwin
    ELSE IF system = "Windows" THEN APP_MAP_Windows
    ELSE APP_MAP_Linux

\* speak(text): the announcement, a message with the values put into it
Say(msg, args) == [msg |-> msg, args |-> args]

Call(fn, arg) == [fn |-> fn, arg |-> arg]

\* a call of fuzzy_match with what it returned
Resolved(fn, arg, result) == [fn |-> fn, arg |-> arg, result |-> result]

Launch(op, arg, result) == [op |-> op, arg |-> arg, result |-> result]

\* what subprocess.run does in open_app
AppOutcomes == {"ok", "CalledProcessError", "FileNotFoundError"}

\* what webbrowser.open does: it returns True or False, or raises
BrowserOutcomes == {"true", "false", "raise"}

\* open_app(app_name) -> bool
open_app(outcome) == outcome = "ok"

\* open_website(url) -> bool, and the try block of open_with_search
open_website(outcome) == outcome # "raise"

\* ---------------- the dispatcher ----------------

\* a dispatcher that takes every text for an address
IsAddress_Any(target) == TRUE

\* target.startswith("http") or "." in target
IsAddress(target) == StartsWith(target, w_http) \/ Contains(target, w_dot)

\* a dispatcher that tries the site names before the app names
open_regular_SitesFirst(target, pre, log) ==
    \E web_match \in FuzzyResults(target, Keys(WEB_DEFAULTS)) :
      LET log1 == Append(log, Resolved("fuzzy_match_sites", target, web_match)) IN
      IF Truthy(web_match)
      THEN \E r \in BrowserOutcomes :
             /\ launches' = <<Launch("open_website", Lookup(WEB_DEFAULTS, web_match.val), r)>>
             /\ calls' = log1
             /\ said' = pre \o
                  <<Say("Opening {web_match}", <<web_match.val>>),
                    IF open_website(r)
                    THEN Say("{web_match} is now open in your browser", <<web_match.val>>)
                    ELSE Say("Sorry, I couldn't open {web_match}. Please check your internet connection.",
                             <<web_match.val>>)>>
      ELSE
      \E app_match \in FuzzyResults(target, Keys(APP_MAP)) :
        LET log2 == Append(log1, Resolved("fuzzy_match_apps", target, app_match)) IN
        IF Truthy(app_match)
        THEN \E r \in AppOutcomes :
               /\ launches' = <<Launch("open_app", Lookup(APP_MAP, app_match.val), r)>>
               /\ calls' = log2
               /\ said' = pre \o
                    <<Say("Opening {app_match}", <<app_match.val>>),
                      IF open_app(r)
                      THEN Say("{app_match} is now open", <<app_match.val>>)
                      ELSE Say("Sorry, I couldn't open {app_match}. Make sure it's installed.",
                               <<app_match.val>>)>>
        ELSE /\ launches' = << >>
             /\ calls' = log2
             /\ said' = Append(pre,
                   Say("Sorry, I don't know how to open {target}. Try saying the name more clearly.",
                       <<target>>))

\* a dispatcher that opens the site of the same name when the app launch failed
open_regular_SiteAfterFailedApp(target, pre, log) ==
    \E app_match \in FuzzyResults(target, Keys(APP_MAP)) :
      \E r \in AppOutcomes, r2 \in BrowserOutcomes :
        /\ calls' = Append(log, Resolved("fuzzy_match_apps", target, app_match))
        /\ IF Truthy(app_match) /\ ~open_app(r) /\ HasKey(WEB_DEFAULTS, app_match.val)
           THEN /\ launches' = <<Launch("open_app", Lookup(APP_MAP, app_match.val), r),
                                  Launch("open_website", Lookup(WEB_DEFAULTS, app_match.val), r2)>>
                /\ said' = pre \o <<Say("Opening {app_match}", <<app_match.val>>),
                                     Say("Opening {web_match}", <<app_match.val>>)>>
           ELSE IF Truthy(app_match)
           THEN /\ launches' = <<Launch("open_app", Lookup(APP_MAP, app_match.val), r)>>
                /\ said' = pre \o <<Say("Opening {app_match}", <<app_match.val>>),
                                     Say("{app_match} is now open", <<app_match.val>>)>>
           ELSE /\ launches' = << >>
                /\ said' = Append(pre,
                      Say("Sorry, I don't know how to open {target}. Try saying the name more clearly.",
                          <<target>>))

\* the regular open logic of open_command, after parsing: apps first, then
\* sites, then a direct address
open_regular(target, pre, log) ==
    \E app_match \in FuzzyResults(target, Keys(APP_MAP)) :
      LET log1 == Append(log, Resolved("fuzzy_match_apps", target, app_match)) IN
      IF Truthy(app_match)
      THEN \E r \in AppOutcomes :
             /\ launches' = <<Launch("open_app", Lookup(APP_MAP, app_match.val), r)>>
             /\ calls' = log1
             /\ said' = pre \o
                  <<Say("Opening {app_match}", <<app_match.val>>),
                    IF open_app(r)
                    THEN Say("{app_match} is now open", <<app_match.val>>)
                    ELSE Say("Sorry, I couldn't open {app_match}. Make sure it's installed.",
                             <<app_match.val>>)>>
      ELSE
      \E web_match \in FuzzyResults(target, Keys(WEB_DEFAULTS)) :
        LET log2 == Append(log1, Resolved("fuzzy_match_sites", target, web_match)) IN
        IF Truthy(web_match)
        THEN \E r \in BrowserOutcomes :
               /\ launches' = <<Launch("open_website", Lookup(WEB_DEFAULTS, web_match.val), r)>>
               /\ calls' = log2
               /\ said' = pre \o
                    <<Say("Opening {web_match}", <<web_match.val>>),
                      IF open_website(r)
                      THEN Say("{web_match} is now open in your browser", <<web_match.val>>)
                      ELSE Say("Sorry, I couldn't open {web_match}. Please check your internet connection.",
                               <<web_match.val>>)>>
        ELSE IF IsAddress(target)
        THEN LET url == IF StartsWith(target, w_http) THEN target
                        ELSE w_https_prefix \o target
             IN  \E r \in BrowserOutcomes :
                   /\ launches' = <<Launch("open_website", url, r)>>
                   /\ calls' = log2
                   /\ said' = pre \o
                        <<Say("Opening {target}", <<url>>),
                          IF open_website(r)
                          THEN Say("Website is now open in your browser", << >>)
                          ELSE Say("Sorry, I don't know how to open {target}. Try saying the name more clearly.",
                                   <<url>>)>>
        ELSE /\ launches' = << >>
             /\ calls' = log2
             /\ said' = Append(pre,
                   Say("Sorry, I don't know how to open {target}. Try saying the name more clearly.",
                       <<target>>))

\* open_command after parsing: a search, a question for the query, or the
\* regular open logic
open_parsed(p, target, pre, log1) ==
    IF Truthy(p.platform) /\ Truthy(p.query)
    THEN \* open_with_search(platform, query)
         IF ~HasKey(SEARCH_PATTERNS, p.platform.val)
         THEN /\ launches' = << >>
              /\ calls' = Append(log1, Call("open_with_search", p.query.val))
              /\ said' = pre \o
                   <<Say("Searching for {query} on {platform}", <<p.query.val, p.platform.val>>),
                     Say("Sorry, I couldn't search for {query} on {platform}",
                         <<p.query.val, p.platform.val>>)>>
         ELSE \E r \in BrowserOutcomes :
              /\ launches' = <<Launch("open_with_search",
                                      search_url(p.platform.val, p.query.val), r)>>
              /\ calls' = Append(log1, Call("open_with_search", p.query.val))
              /\ said' = pre \o
                   <<Say("Searching for {query} on {platform}", <<p.query.val, p.platform.val>>),
                     IF open_website(r)
                     THEN Say("I've opened {platform} and searched for {query}",
                              <<p.platform.val, p.query.val>>)
                     ELSE Say("Sorry, I couldn't search for {query} on {platform}",
                              <<p.query.val, p.platform.val>>)>>
    ELSE IF Truthy(p.platform)
    THEN /\ launches' = << >>
         /\ calls' = log1
         /\ said' = Append(pre, Say("What would you like me to search for on {platform}?",
                                    <<p.platform.val>>))
    ELSE open_regular(IF Truthy(p.remaining) THEN p.remaining.val ELSE target, pre, log1)

\* open_command(target), called with the announcements and calls made so far
open_command(target0, pre, log0) ==
    LET target == Strip(Lower(target0))
        log    == Append(log0, Call("open_command", target0))
    IN
    IF target = << >>
    THEN /\ said' = Append(pre, Say("I didn't catch what you want me to open. Please try again.", << >>))
         /\ launches' = << >>
         /\ calls' = log
         /\ parsed' = << >>
    ELSE
    LET p    == parse_search_command(target)
        log1 == Append(log, Call("parse_search_command", target))
    IN
    /\ parsed' = <<p>>
    /\ open_parsed(p, target, pre, log1)

\* ---------------- system commands ----------------

IsShutdown(c) == ContainsAny(Strip(Lower(c)), shutdown_keywords)

IsHelp(c) == ContainsAny(Strip(Lower(c)), help_phrases)

\* handle_system_commands with the help test ahead of the shutdown test
handle_system_commands_HelpFirst(c) ==
    IF IsHelp(c)
    THEN [shutdown |-> FALSE,
          said |-> <<Say("I can open apps like Chrome, Spotify, and Safari. ... Say shutdown to exit.", << >>)>>]
    ELSE IF IsShutdown(c)
    THEN [shutdown |-> TRUE,
          said |-> <<Say("Goodbye! Siri is shutting down now.", << >>)>>]
    ELSE [shutdown |-> FALSE, said |-> << >>]

\* handle_system_commands returning True after the help narration as well
handle_system_commands_HelpExits(c) ==
    IF IsShutdown(c)
    THEN [shutdown |-> TRUE,
          said |-> <<Say("Goodbye! Siri is shutting down now.", << >>)>>]
    ELSE IF IsHelp(c)
    THEN [shutdown |-> TRUE,
          said |-> <<Say("I can open apps like Chrome, Spotify, and Safari. ... Say shutdown to exit.", << >>)>>]
    ELSE [shutdown |-> FALSE, said |-> << >>]

\* handle_system_commands(cmd): what it announces and whether it signals shutdown
handle_system_commands(c) ==
    IF IsShutdown(c)
    THEN [shutdown |-> TRUE,
          said |-> <<Say("Goodbye! Siri is shutting down now.", << >>)>>]
    ELSE IF IsHelp(c)
    THEN [shutdown |-> FALSE,
          said |-> <<Say("I can open apps like Chrome, Spotify, and Safari. ... Say shutdown to exit.", << >>)>>]
    ELSE [shutdown |-> FALSE, said |-> << >>]

\* the test of main() that sends a command to open_command
IsOpenOrSearch(c) ==
    \/ ContainsAny(c, route_keywords)
    \/ ContainsAny(c, Keys(APP_MAP))
    \/ ContainsAny(c, Keys(WEB_DEFAULTS))

\* ---------------- the speech source ----------------

\* listen_google(): None when the service is unavailable, "" when nothing was
\* heard or understood, else the lowercased text
GoogleResults(spoken) == {None} \cup {Some(Lower(u)) : u \in spoken}

\* listen_vosk(): "" without a model, else the lowercased, stripped text
VoskResults(spoken) ==
    IF vosk_model THEN {Strip(Lower(u)) : u \in spoken} ELSE {<< >>}

\* a capture that falls back to listen_vosk() on every falsy result of
\* listen_google(), "" as well as None
Captures_FallbackOnEmpty(spoken) ==
    {[primary |-> g, engines |-> <<"google">>, text |-> g.val] :
        g \in GoogleResults(spoken) \ {None, Some(<< >>)}}
    \cup
    {[primary |-> g, engines |-> <<"google", "vosk">>, text |-> v] :
        g \in {None, Some(<< >>)}, v \in VoskResults(spoken)}

\* one capture of main(): listen_google(), and listen_vosk() if that gave None
Captures(spoken) ==
    {[primary |-> g, engines |-> <<"google">>, text |-> g.val] :
        g \in GoogleResults(spoken) \ {None}}
    \cup
    {[primary |-> None, engines |-> <<"google", "vosk">>, text |-> v] :
        v \in VoskResults(spoken)}

\* the noise test on the length of the text as captured, not stripped
NotHeard_NoStrip(t) == t = << >> \/ Len(t) < 2

\* not text or len(text.strip()) < 2
NotHeard(t) == t = << >> \/ Len(Strip(t)) < 2

\* the loop without the wake word test
HasWakeWord_Missing(t) == TRUE

\* WAKE_WORD in text
HasWakeWord(t) == Contains(t, WAKE_WORD)

\* ---------------- the requests of the web server ----------------

\* the most requests to /api/command the model follows
MaxRequests == 2

\* a request that has not arrived
NoRequest == [pc |-> "idle", command |-> << >>, success |-> FALSE, response |-> "none"]

NoRequests == [i \in 1..MaxRequests |-> NoRequest]

\* ---------------- the session loop ----------------

Running == {"AwaitingWakeWord", "AwaitingCommand", "Dispatching"}

Init ==
    /\ system \in {"Darwin", "Windows", "Linux"}
    /\ vosk_model \in BOOLEAN
    /\ state = "AwaitingWakeWord"
    /\ text = << >>
    /\ cmd = << >>
    /\ primary = None
    /\ engines = << >>
    /\ parsed = << >>
    /\ said = <<Say("Siri is online and listening.", << >>),
                Say("Running in speech detection mode", << >>),
                Say("Testing microphone and speech systems.", << >>)>>
    /\ launches = << >>
    /\ calls = << >>
    /\ fails = 0
    /\ last = "start"
    /\ threaded = FALSE
    /\ requests = NoRequests

\* a loop that hands the wake-phase text to handle_system_commands as well
WakeCapture_HandlesWakeText ==
    /\ state = "AwaitingWakeWord"
    /\ \E h \in Captures(WakeUtterances) :
         /\ primary' = h.primary
         /\ engines' = h.engines
         /\ text' = h.text
         /\ IF NotHeard(h.text)
            THEN /\ said' = << >>
                 /\ state' = "AwaitingWakeWord"
                 /\ last' = "wake_noise"
            ELSE IF ~HasWakeWord(h.text)
            THEN /\ said' = << >>
                 /\ state' = "AwaitingWakeWord"
                 /\ last' = "wake_other"
            ELSE IF handle_system_commands(h.text).shutdown
            THEN /\ said' = handle_system_commands(h.text).said
                 /\ state' = "ShuttingDown"
                 /\ last' = "shutdown"
            ELSE /\ said' = <<Say("Yes, what would you like me to do?", << >>)>>
                 /\ state' = "AwaitingCommand"
                 /\ last' = "wake_word"
    /\ cmd' = << >>
    /\ launches' = << >>
    /\ calls' = << >>
    /\ parsed' = << >>
    /\ UNCHANGED <<threaded, requests, system, vosk_model, fails>>

\* main(): one wake-phase capture
WakeCapture ==
    /\ state = "AwaitingWakeWord"
    /\ \E h \in Captures(WakeUtterances) :
         /\ primary' = h.primary
         /\ engines' = h.engines
         /\ text' = h.text
         /\ IF NotHeard(h.text)
            THEN /\ said' = << >>
                 /\ state' = "AwaitingWakeWord"
                 /\ last' = "wake_noise"
            ELSE IF ~HasWakeWord(h.text)
            THEN /\ said' = << >>
                 /\ state' = "AwaitingWakeWord"
                 /\ last' = "wake_other"
            ELSE /\ said' = <<Say("Yes, what would you like me to do?", << >>)>>
                 /\ state' = "AwaitingCommand"
                 /\ last' = "wake_word"
    /\ cmd' = << >>
    /\ launches' = << >>
    /\ calls' = << >>
    /\ parsed' = << >>
    /\ UNCHANGED <<threaded, requests, system, vosk_model, fails>>

\* main(): the command-phase capture
CommandCapture ==
    /\ state = "AwaitingCommand"
    /\ \E h \in Captures(CommandUtterances) :
         /\ primary' = h.primary
         /\ engines' = h.engines
         /\ cmd' = h.text
         /\ IF NotHeard(h.text)
            THEN /\ fails < MaxFails
                 /\ said' = Append(said, Say("I didn't hear a clear command. Please try again.", << >>))
                 /\ state' = "AwaitingWakeWord"
                 /\ fails' = fails + 1
                 /\ last' = "command_unheard"
            ELSE /\ said' = said
                 /\ state' = "Dispatching"
                 /\ fails' = 0
                 /\ last' = "command"
    /\ UNCHANGED <<threaded, requests, system, vosk_model, text, launches, calls, parsed>>

\* main(): handle_system_commands(cmd), then open_command(cmd) or the hint
Dispatch ==
    /\ state = "Dispatching"
    /\ LET sys == handle_system_commands(cmd)
           log == Append(calls, Call("handle_system_commands", cmd))
       IN  IF sys.shutdown
           THEN /\ said' = said \o sys.said
                /\ calls' = log
                /\ launches' = launches
                /\ parsed' = parsed
                /\ state' = "ShuttingDown"
                /\ last' = "shutdown"
           ELSE /\ IF IsOpenOrSearch(cmd)
                   THEN open_command(cmd, said \o sys.said, log)
                   ELSE /\ said' = (said \o sys.said) \o
                              <<Say("Please tell me what to open, or say help for assistance.", << >>)>>
                        /\ calls' = log
                        /\ launches' = launches
                        /\ parsed' = parsed
                /\ state' = "AwaitingWakeWord"
                /\ last' = "dispatched"
    /\ UNCHANGED <<threaded, requests, system, vosk_model, text, cmd, primary, engines, fails>>

\* the KeyboardInterrupt handler without its speak("Goodbye!")
Interrupt_Silent ==
    /\ state \in Running
    /\ state' = "ShuttingDown"
    /\ last' = "interrupt"
    /\ UNCHANGED <<threaded, requests, system, vosk_model, text, cmd, primary, engines, said, launches,
                   calls, parsed, fails>>

\* KeyboardInterrupt while main() runs: the handler of __main__
Interrupt ==
    /\ state \in Running
    /\ said' = Append(said, Say("Goodbye!", << >>))
    /\ state' = "ShuttingDown"
    /\ last' = "interrupt"
    /\ UNCHANGED <<threaded, requests, system, vosk_model, text, cmd, primary, engines, launches, calls,
                   parsed, fails>>

\* any other exception out of main() (wait_for_speech catches only the
\* timeout): the handler of __main__
Error ==
    /\ state \in {"AwaitingWakeWord", "AwaitingCommand"}
    /\ said' = Append(said, Say("Sorry, something went wrong.", << >>))
    /\ state' = "Failed"
    /\ last' = "error"
    /\ UNCHANGED <<threaded, requests, system, vosk_model, text, cmd, primary, engines, launches, calls,
                   parsed, fails>>

\* the process ends
Exit ==
    /\ state \in {"ShuttingDown", "Failed"}
    /\ state' = "Exited"
    /\ UNCHANGED <<threaded, requests, system, vosk_model, text, cmd, primary, engines, said, launches,
                   calls, parsed, fails, last>>

Next ==
    \/ WakeCapture
    \/ CommandCapture
    \/ Dispatch
    \/ Interrupt
    \/ Error
    \/ Exit

Spec == Init /\ [][Next]_vars

\* ---------------- the parser on its own ----------------

ParserInit ==
    /\ cmd \in ParserInputs
    /\ state = "Parsing"
    /\ parsed = << >>
    /\ last = "start"
    /\ system = "Linux"
    /\ vosk_model = FALSE
    /\ text = << >>
    /\ primary = None
    /\ engines = << >>
    /\ said = << >>
    /\ launches = << >>
    /\ calls = << >>
    /\ fails = 0
    /\ threaded = FALSE
    /\ requests = NoRequests

\* parse_search_command(cmd)
Parse ==
    /\ state = "Parsing"
    /\ parsed' = <<parse_search_command(cmd)>>
    /\ calls' = Append(calls, Call("parse_search_command", cmd))
    /\ state' = "Parsed"
    /\ last' = "parsed"
    /\ UNCHANGED <<threaded, requests, system, vosk_model, text, cmd, primary, engines, said, launches, fails>>

ParserSpec == ParserInit /\ [][Parse]_vars

\* ---------------- the fuzzy resolver on its own ----------------

q_blank ==  \* "  "
    <<" "," ">>
q_chrome ==  \* "chrome"
    <<"c","h","r","o","m","e">>
q_Code ==  \* "Code"
    <<"C","o","d","e">>
q_crome ==  \* "crome"
    <<"c","r","o","m","e">>
q_open_spotify ==  \* "open spotify"
    <<"o","p","e","n"," ","s","p","o","t","i","f","y">>
q_plus ==  \* "++"
    <<"+","+">>

\* the queries given to fuzzy_match
FuzzyQueries == { t_empty, q_blank, q_plus, q_chrome, q_Code, q_crome, q_open_spotify }

\* the most candidates of a call
MaxChoices == 3

\* the names the candidates are taken from
ChoiceNames == { APP_MAP_Linux[i].key : i \in 1..4 }

\* the candidate lists: up to MaxChoices names in any order, none twice
ChoiceLists ==
    { c \in UNION { [1..n -> ChoiceNames] : n \in 1..MaxChoices } :
        \A i, j \in 1..Len(c) : c[i] = c[j] => i = j }

\* The scores process.extractOne can compute, any score of ScoreSet for each
\* choice: 100 for a choice equal to the processed query and for no other.
AllScoreTables(query, choices) ==
    LET pq == full_process(query) IN
    { sc \in [1..Len(choices) -> ScoreSet \cup {100}] :
        \A i \in 1..Len(choices) : (sc[i] = 100) <=> (full_process(choices[i]) = pq) }

FuzzyInit ==
    /\ text \in FuzzyQueries
    /\ state = "Resolving"
    /\ calls = << >>
    /\ last = "start"
    /\ system = "Linux"
    /\ vosk_model = FALSE
    /\ cmd = << >>
    /\ primary = None
    /\ engines = << >>
    /\ said = << >>
    /\ launches = << >>
    /\ parsed = << >>
    /\ fails = 0
    /\ threaded = FALSE
    /\ requests = NoRequests

\* fuzzy_match(text, choices): the call with the candidates, the scores that
\* extractOne computed (none for a blank query) and the result
Resolve ==
    /\ state = "Resolving"
    /\ \E choices \in ChoiceLists :
         \E scores \in AllScoreTables(text, choices) :
            calls' = <<[fn |-> "fuzzy_match", arg |-> text, choices |-> choices,
                        scores |-> IF Strip(text) = << >> THEN << >> ELSE scores,
                        result |-> fuzzy_match(text, choices, scores)]>>
    /\ state' = "Resolved"
    /\ last' = "resolved"
    /\ UNCHANGED <<threaded, requests, system, vosk_model, text, cmd, primary, engines,
                   said, launches, parsed, fails>>

FuzzySpec == FuzzyInit /\ [][Resolve]_vars

\* ---------------- the web server (src/siri_web_server.py) ----------------

web_route_keywords ==  \* process_voice_command, open/search test
    << <<"o","p","e","n">>,  \* "open"
       <<"p","l","a","y">>,  \* "play"
       <<"s","e","a","r","c","h">>,  \* "search"
       <<"f","i","n","d">>,  \* "find"
       <<"w","a","t","c","h">>,  \* "watch"
       <<"l","i","s","t","e","n">>,  \* "listen"
       <<"l","a","u","n","c","h">>,  \* "launch"
       <<"s","t","a","r","t">> >>  \* "start"
web_search_words ==  \* process_voice_command, the YouTube response
    << <<"f","i","n","d">>,  \* "find"
       <<"s","e","a","r","c","h">>,  \* "search"
       <<"w","a","t","c","h">>,  \* "watch"
       <<"p","l","a","y">> >>  \* "play"
web_browsers ==  \* process_voice_command, the browser response
    << <<"c","h","r","o","m","e">>,  \* "chrome"
       <<"s","a","f","a","r","i">>,  \* "safari"
       <<"f","i","r","e","f","o","x">> >>  \* "firefox"
web_siri ==  \* "siri"
    <<"s","i","r","i">>
w_youtube ==  \* "youtube"
    <<"y","o","u","t","u","b","e">>
w_spotify ==  \* "spotify"
    <<"s","p","o","t","i","f","y">>
w_help ==  \* "help"
    <<"h","e","l","p">>
t_web_Play_Jazz ==  \* "  Play Jazz "
    <<" "," ","P","l","a","y"," ","J","a","z","z"," ">>
t_web_blank ==  \* " "
    <<" ">>

\* the commands the web page posts to /api/command
WebCommands ==
    { t_empty, t_web_blank, t_spotify, t_siri_open_spotify, t_web_Play_Jazz,
      t_shutdown, t_help, t_open_youtube_find }

\* the positions of a request whose command is being processed
InFlight == {"processing", "opening"}

\* a server that handles requests in threads takes a request at any time
Admits_Always == TRUE

\* app.run(...): a server that handles each request in a thread of its own
\* takes a request at any time, a server with one thread only when no earlier
\* request is being processed
Admits == threaded \/ \A j \in 1..MaxRequests : requests[j].pc \notin InFlight

\* a request as it leaves handle_command
Responded(command, success, response) ==
    [pc |-> "responded", command |-> command, success |-> success, response |-> response]

\* the response that process_voice_command returns after open_command
OpenedResponse(command) ==
    IF Contains(command, w_youtube) /\ ContainsAny(command, web_search_words)
    THEN "I've opened YouTube with your search. The videos should be loading now!"
    ELSE IF Contains(command, w_spotify)
    THEN "Opening Spotify for you. Enjoy your music!"
    ELSE IF ContainsAny(command, web_browsers)
    THEN "Opening your browser now."
    ELSE IF Contains(command, w_help)
    THEN "I can open apps and websites for you. ..."
    ELSE "Command processed successfully! Check if the app/website opened."

\* the response that process_voice_command returns without open_command
UnroutedResponse(command) ==
    IF Contains(command, w_help)
    THEN "I can open apps and websites for you. ..."
    ELSE "Please tell me what to open, or say 'help' for assistance."

WebInit ==
    /\ system = "Linux"
    /\ vosk_model = FALSE
    /\ state = "Serving"
    /\ text = << >>
    /\ cmd = << >>
    /\ primary = None
    /\ engines = << >>
    /\ said = << >>
    /\ launches = << >>
    /\ calls = << >>
    /\ parsed = << >>
    /\ fails = 0
    /\ last = "start"
    /\ threaded \in BOOLEAN
    /\ requests = NoRequests

\* handle_command(): a request arrives; a body that is no JSON object and a
\* request without a command are answered at once. said, launches, calls and
\* parsed start anew: they hold what the interpreter did since the latest
\* request arrived.
handle_command ==
    /\ state = "Serving"
    /\ \E i \in 1..MaxRequests :
         /\ requests[i].pc = "idle"
         /\ \A j \in 1..(i - 1) : requests[j].pc # "idle"
         /\ Admits
         /\ \/ requests' = [requests EXCEPT ![i] = Responded(<< >>, FALSE, "Server error: ...")]
            \/ \E c \in WebCommands :
                 requests' = [requests EXCEPT ![i] =
                    IF c = << >>
                    THEN Responded(c, FALSE, "No command received")
                    ELSE [pc |-> "processing", command |-> c, success |-> FALSE,
                          response |-> "none"]]
    /\ said' = << >>
    /\ launches' = << >>
    /\ calls' = << >>
    /\ parsed' = << >>
    /\ last' = "handle_command"
    /\ UNCHANGED <<threaded, system, vosk_model, state, text, cmd, primary, engines, fails>>

\* process_voice_command(command), up to its open/search test:
\* handle_system_commands, then the answer or the way to open_command
process_voice_command ==
    /\ state = "Serving"
    /\ \E i \in 1..MaxRequests :
         /\ requests[i].pc = "processing"
         /\ LET command == Strip(Lower(requests[i].command))
                sys     == handle_system_commands(command)
            IN  /\ said' = sys.said
                /\ calls' = <<Call("handle_system_commands", command)>>
                /\ launches' = << >>
                /\ parsed' = << >>
                /\ requests' = [requests EXCEPT ![i] =
                      IF sys.shutdown
                      THEN Responded(requests[i].command, TRUE,
                             "I would shut down the voice assistant, but I'm running in web mode!")
                      ELSE IF ContainsAny(command, web_route_keywords)
                      THEN [requests[i] EXCEPT !.pc = "opening"]
                      ELSE Responded(requests[i].command, TRUE, UnroutedResponse(command))]
    /\ last' = "process_voice_command"
    /\ UNCHANGED <<threaded, system, vosk_model, state, text, cmd, primary, engines, fails>>

\* process_voice_command(command), its open/search branch:
\* open_command(clean_command) and the response
web_open_command ==
    /\ state = "Serving"
    /\ \E i \in 1..MaxRequests :
         /\ requests[i].pc = "opening"
         /\ LET command       == Strip(Lower(requests[i].command))
                clean_command == Strip(Replace(command, web_siri, << >>))
            IN  /\ open_command(clean_command, << >>, << >>)
                /\ requests' = [requests EXCEPT ![i] =
                      Responded(requests[i].command, TRUE, OpenedResponse(command))]
    /\ last' = "open_command"
    /\ UNCHANGED <<threaded, system, vosk_model, state, text, cmd, primary, engines, fails>>

WebNext ==
    \/ handle_command
    \/ process_voice_command
    \/ web_open_command

WebSpec == WebInit /\ [][WebNext]_vars

\* ---------------- properties ----------------

\* the functions of the interpreter that parse or dispatch a command
ParserOrDispatcher ==
    {"open_command", "parse_search_command", "open_with_search",
     "fuzzy_match_apps", "fuzzy_match_sites"}

Invoked(fns) == \E i \in 1..Len(calls) : calls[i].fn \in fns

Announced(msg) == \E i \in 1..Len(said) : said[i].msg = msg

\* the loop has just handled the command cmd
Handled == last \in {"dispatched", "shutdown"}

\* C1: a handled command that contains a shutdown synonym, whatever else it
\* contains, announces the farewell, ends the session loop, and reaches
\* neither the parser nor any launch operation.
C1_ShutdownSynonymWins ==
    (Handled /\ ContainsAny(cmd, shutdown_keywords)) =>
        /\ last = "shutdown"
        /\ state \in {"ShuttingDown", "Exited"}
        /\ said[Len(said)] = Say("Goodbye! Siri is shutting down now.", << >>)
        /\ launches = << >>
        /\ parsed = << >>
        /\ ~Invoked(ParserOrDispatcher)

\* a shutdown synonym next to a help word and next to an open word
C1_Witness ==
    /\ last = "shutdown"
    /\ state = "Exited"
    /\ cmd \in {t_quit_help, t_open_stopwatch, t_search_exit}

\* C2: dispatching "open youtube and find cooking videos" parses it as a search
\* on platform "youtube" with the query exactly "cooking videos", and opens
\* exactly https://www.youtube.com/results?search_query=cooking+videos.
C2_CookingVideosSearch ==
    (last = "dispatched" /\ cmd = t_open_youtube_find) =>
        /\ parsed = <<[platform |-> Some(<<"y","o","u","t","u","b","e">>),
                       query |-> Some(<<"c","o","o","k","i","n","g"," ","v","i","d","e","o","s">>),
                       remaining |-> None]>>
        /\ Len(launches) = 1
        /\ launches[1].op = "open_with_search"
        /\ launches[1].arg =
             <<"h","t","t","p","s",":","/","/","w","w","w",".","y","o","u","t","u","b","e",".","c","o","m","/","r","e","s","u","l","t","s","?","s","e","a","r","c","h","_","q","u","e","r","y","=","c","o","o","k","i","n","g","+","v","i","d","e","o","s">>

\* C3: for a plain-open command the text the parser returns, and the text
\* resolved against the app names, is the command lowercased and trimmed with
\* the wake word and the words open, launch, start and please removed; "siri
\* open spotify" gives "spotify" and an attempt to launch the Spotify app.
C3_ResidualTextIsCleaned ==
    (last = "dispatched" /\ parsed # << >> /\ parsed[1].platform.isNone) =>
        /\ parsed[1].remaining = Some(clean_cmd(cmd))
        /\ \A i \in 1..Len(calls) :
              calls[i].fn = "fuzzy_match_apps" => calls[i].arg = clean_cmd(cmd)
        /\ cmd = t_siri_open_spotify =>
              /\ parsed[1].remaining = Some(<<"s","p","o","t","i","f","y">>)
              /\ Len(launches) = 1
              /\ launches[1].op = "open_app"
              /\ launches[1].arg = Lookup(APP_MAP, <<"s","p","o","t","i","f","y">>)

\* C6: a handled command that contains "help" and no shutdown synonym makes
\* the capability narration its only announcement, signals no shutdown, and
\* reaches neither the parser, the dispatcher nor a launch operation before
\* the loop is back at AwaitingWakeWord.
C6_HelpShortCircuits ==
    (Handled /\ Contains(cmd, <<"h","e","l","p">>) /\ ~ContainsAny(cmd, shutdown_keywords)) =>
        /\ state = "AwaitingWakeWord"
        /\ said = <<Say("Yes, what would you like me to do?", << >>)>>
                  \o handle_system_commands(cmd).said
        /\ Len(handle_system_commands(cmd).said) = 1
        /\ launches = << >>
        /\ parsed = << >>
        /\ ~Invoked(ParserOrDispatcher)

\* urllib.parse.unquote_plus: "+" is a blank, %XX the character of code XX
RECURSIVE unquote_plus(_)
unquote_plus(s) ==
    IF s = << >> THEN << >>
    ELSE IF Head(s) = "+" THEN <<" ">> \o unquote_plus(Tail(s))
    ELSE IF Head(s) = "%" /\ Len(s) >= 3
         THEN <<Ascii[16 * (IndexIn(s[2], HexDigits) - 1)
                      + (IndexIn(s[3], HexDigits) - 1) - 31]>>
              \o unquote_plus(SubSeq(s, 4, Len(s)))
    ELSE <<Head(s)>> \o unquote_plus(Tail(s))

\* the length of the percent-encoding of q: three characters for each
\* character that is neither a blank nor unreserved, one for every other
EncodedLen(q) ==
    Len(q) + 2 * Cardinality({i \in 1..Len(q) : q[i] # " " /\ ~IsUnreserved(q[i])})

\* C4: when the parser found a platform and a non-empty query, the URL handed
\* to the browser is the search prefix of that platform followed by the
\* percent-encoded query, and decoding the encoded part gives the query back.
C4_SearchUrlRoundTrip ==
    (last = "dispatched" /\ parsed # << >>
        /\ Truthy(parsed[1].platform) /\ Truthy(parsed[1].query)) =>
      LET platform == parsed[1].platform.val
          query    == parsed[1].query.val
      IN  /\ \E i \in 1..Len(SEARCH_PATTERNS) : SEARCH_PATTERNS[i].key = platform
          /\ Len(launches) = 1
          /\ launches[1].op = "open_with_search"
          /\ \A i \in 1..Len(SEARCH_PATTERNS) :
                SEARCH_PATTERNS[i].key = platform =>
                  LET prefix == SEARCH_PATTERNS[i].val
                      url    == launches[1].arg
                      enc    == SubSeq(url, Len(prefix) + 1, Len(url))
                  IN  /\ Len(url) >= Len(prefix)
                      /\ SubSeq(url, 1, Len(prefix)) = prefix
                      /\ \A k \in 1..Len(enc) :
                            IsUnreserved(enc[k]) \/ enc[k] \in {"+", "%"}
                      /\ Len(enc) = EncodedLen(query)
                      /\ unquote_plus(enc) = query

\* a search whose query holds blanks, "+" and "&" has been opened
C4_Witness ==
    /\ last = "dispatched"
    /\ cmd = t_search_cpp
    /\ Len(launches) = 1
    /\ launches[1].op = "open_with_search"
    /\ \E k \in 1..Len(parsed[1].query.val) : parsed[1].query.val[k] = "+"

\* the search keywords as the claim lists them
C5_Keywords ==
    << <<"p","l","a","y">>,
       <<"s","e","a","r","c","h">>,
       <<"f","i","n","d">>,
       <<"l","o","o","k"," ","f","o","r">>,
       <<"s","h","o","w"," ","m","e">>,
       <<"w","a","t","c","h">>,
       <<"l","i","s","t","e","n">>,
       <<"l","i","s","t","e","n"," ","t","o">> >>

\* C5: the parser's result has a platform exactly when the utterance contains
\* a search keyword; a platform it has is a key of SEARCH_PATTERNS (the query
\* may be None); without a platform the query is None and the remaining text
\* is not.
C5_ParsedShape ==
    (last = "parsed") =>
      LET r == parsed[1] IN
      /\ ~r.platform.isNone <=> ContainsAny(Lower(cmd), C5_Keywords)
      /\ ~r.platform.isNone =>
            \E i \in 1..Len(SEARCH_PATTERNS) : SEARCH_PATTERNS[i].key = r.platform.val
      /\ r.platform.isNone => (r.query.isNone /\ ~r.remaining.isNone)

\* parsed: a search with a query, a search without one, and a plain open
C5_Witness ==
    /\ last = "parsed"
    /\ cmd = <<"s","h","o","w"," ","m","e"," ","t","h","e">>
    /\ ~parsed[1].platform.isNone
    /\ parsed[1].query.isNone

\* C7: the loop moves from AwaitingWakeWord to AwaitingCommand only on a text
\* of at least 2 characters after trimming that contains the wake word; on any
\* other capture result it stays in AwaitingWakeWord, announces nothing and
\* invokes neither system-command handling nor the dispatcher.
C7_WakeGate ==
    [][ /\ (state' = "AwaitingCommand" /\ state # "AwaitingCommand") =>
              /\ state = "AwaitingWakeWord"
              /\ Len(Strip(text')) >= 2
              /\ Contains(text', WAKE_WORD)
        /\ (/\ state = "AwaitingWakeWord"
            /\ last' \notin {"interrupt", "error"}
            /\ ~(Len(Strip(text')) >= 2 /\ Contains(text', WAKE_WORD))) =>
              /\ state' = "AwaitingWakeWord"
              /\ said' = << >>
              /\ calls' = << >>
              /\ launches' = << >>
              /\ parsed' = << >>
      ]_vars

\* a text of 2 or more characters without the wake word was captured
C7_Witness ==
    /\ state = "AwaitingWakeWord"
    /\ last = "wake_other"
    /\ text = t_hello
    /\ said = << >>

\* C8: in AwaitingCommand a command that is empty or shorter than 2 characters
\* after trimming gets the didn't-hear announcement, no system-command
\* handling, no parsing and no dispatch, and the loop is back at
\* AwaitingWakeWord, however many such failures came before it.
C8_UnheardCommand ==
    [][ (/\ state = "AwaitingCommand"
         /\ last' \notin {"interrupt", "error"}
         /\ (cmd' = << >> \/ Len(Strip(cmd')) < 2)) =>
           /\ state' = "AwaitingWakeWord"
           /\ said' = Append(said,
                  Say("I didn't hear a clear command. Please try again.", << >>))
           /\ calls' = << >>
           /\ launches' = << >>
           /\ parsed' = << >>
           /\ fails' = fails + 1
      ]_vars

\* the loop is running after MaxFails unheard commands in a row
C8_Witness ==
    /\ state = "AwaitingWakeWord"
    /\ last = "command_unheard"
    /\ fails = MaxFails

Farewells ==
    {Say("Goodbye! Siri is shutting down now.", << >>), Say("Goodbye!", << >>)}

\* C10 as claimed: however the process ends (shutdown phrase, interruption or
\* error), the last thing it announced is a farewell.
C10_EveryExitSaysFarewell ==
    state = "Exited" => said[Len(said)] \in Farewells

\* C10 amended: the process ends after a shutdown phrase or an interruption
\* through ShuttingDown with a farewell as its last announcement; after an
\* error it ends with the announcement "Sorry, something went wrong." and no
\* farewell.
C10_ExitAnnouncements ==
    [][ (state' = "Exited" /\ state # "Exited") =>
          \/ /\ last \in {"shutdown", "interrupt"}
             /\ state = "ShuttingDown"
             /\ said[Len(said)] \in Farewells
          \/ /\ last = "error"
             /\ state = "Failed"
             /\ said[Len(said)] = Say("Sorry, something went wrong.", << >>)
             /\ \A i \in 1..Len(said) : said[i] \notin Farewells
      ]_vars

\* the process has ended after an interruption of a dispatch
C10_Witness ==
    /\ state = "Exited"
    /\ last = "interrupt"
    /\ cmd = t_open_zzz
    /\ said[Len(said)] = Say("Goodbye!", << >>)

\* the steps of the loop that capture speech
CaptureSteps == {"wake_noise", "wake_other", "wake_word", "command_unheard", "command"}

\* C11: in the wake phase and in the command phase alike, the offline engine
\* is invoked exactly when the online engine returned the service-unavailable
\* signal (None), never when it returned a text or the empty no-speech result,
\* and then the text of the capture is the online engine's; when the online
\* engine is unavailable and the offline engine has no model or hears nothing,
\* the text is empty, the loop takes it as no speech and is back at
\* AwaitingWakeWord, still running.
C11_OfflineFallback ==
    [][ (state \in {"AwaitingWakeWord", "AwaitingCommand"} /\ last' \in CaptureSteps) =>
          LET result == IF state = "AwaitingWakeWord" THEN text' ELSE cmd' IN
          /\ engines'[1] = "google"
          /\ Len(engines') \in {1, 2}
          /\ (Len(engines') = 2) => engines'[2] = "vosk"
          /\ (Len(engines') = 2) <=> (primary' = None)
          /\ (primary' # None) => result = primary'.val
          /\ (primary' = None /\ ~vosk_model) => result = << >>
          /\ (primary' = None /\ result = << >>) =>
                /\ state' = "AwaitingWakeWord"
                /\ last' \in {"wake_noise", "command_unheard"}
                /\ calls' = << >>
                /\ launches' = << >>
      ]_vars

\* both engines failed in the command phase and the loop listens again
C11_Witness ==
    /\ last = "command_unheard"
    /\ state = "AwaitingWakeWord"
    /\ primary = None
    /\ engines = <<"google", "vosk">>
    /\ ~vosk_model
    /\ cmd = << >>

\* C12: for a non-empty command text, given as the session loop would hold it
\* (lowercased and trimmed), the HTTP command endpoint decides as the
\* Dispatching step of the session loop does on that text: open_command is
\* invoked through HTTP exactly when the loop would invoke it (no shutdown
\* signal, and the loop's open/search test holds), and with the same text.
C12_HttpDecidesAsVoice ==
    (/\ requests[1].pc = "responded"
     /\ requests[1].command # << >>
     /\ requests[1].command = Strip(Lower(requests[1].command))
     /\ \A j \in 2..MaxRequests : requests[j].pc = "idle") =>
        LET c == requests[1].command IN
        /\ Invoked({"open_command"}) <=>
              (~handle_system_commands(c).shutdown /\ IsOpenOrSearch(c))
        /\ \A k \in 1..Len(calls) :
              calls[k].fn = "open_command" => calls[k].arg = c

FuzzyCalls == {"fuzzy_match_apps", "fuzzy_match_sites"}

\* C13: a command handed to the dispatcher that the parser takes as a search
\* with an empty query (such as "search for", which gets platform google) is
\* answered by the one question what to search for on that platform; no launch
\* operation is requested, no fuzzy resolution is attempted, and the loop is
\* back at AwaitingWakeWord.
C13_EmptyQueryAsksForQuery ==
    /\ (last = "dispatched" /\ parsed # << >>
          /\ Truthy(parsed[1].platform) /\ ~Truthy(parsed[1].query)) =>
         /\ said = (<<Say("Yes, what would you like me to do?", << >>)>>
                    \o handle_system_commands(cmd).said)
                   \o <<Say("What would you like me to search for on {platform}?",
                            <<parsed[1].platform.val>>)>>
         /\ launches = << >>
         /\ ~Invoked(FuzzyCalls \cup {"open_with_search"})
         /\ state = "AwaitingWakeWord"
    /\ (last = "dispatched" /\ cmd = t_search_for) =>
         parsed = <<[platform |-> Some(<<"g","o","o","g","l","e">>),
                     query |-> None, remaining |-> None]>>

\* "search for" has been answered by the question for a query on google
C13_Witness ==
    /\ last = "dispatched"
    /\ cmd = t_search_for
    /\ launches = << >>
    /\ said[Len(said)] = Say("What would you like me to search for on {platform}?",
                             <<SEARCH_PATTERNS[3].key>>)

\* the text that open_command resolved against the names, when both
\* resolutions returned no match
Unmatched ==
    {calls[j].arg : j \in {k \in 1..Len(calls) :
        /\ calls[k].fn = "fuzzy_match_sites"
        /\ calls[k].result = None
        /\ \E i \in 1..(k - 1) : /\ calls[i].fn = "fuzzy_match_apps"
                                 /\ calls[i].result = None
                                 /\ calls[i].arg = calls[k].arg}}

\* C14: a plain-open command whose text matches no app name and no site name
\* at the threshold and is not address-shaped (no "http" at its start, no ".")
\* is answered by the cannot-open narration alone, and no launch operation is
\* requested; "open zzzznotarealapp" is not address-shaped.
C14_NoMatchCannotOpen ==
    /\ (last = "dispatched") =>
         \A target \in Unmatched :
            ~(StartsWith(target, w_http) \/ Contains(target, w_dot)) =>
               /\ said = (<<Say("Yes, what would you like me to do?", << >>)>>
                          \o handle_system_commands(cmd).said)
                         \o <<Say("Sorry, I don't know how to open {target}. Try saying the name more clearly.",
                                  <<target>>)>>
               /\ launches = << >>
               /\ state = "AwaitingWakeWord"
    /\ (last = "dispatched" /\ cmd = t_open_zzz) =>
         /\ parsed[1].platform = None
         /\ \A i \in 1..Len(calls) :
               calls[i].fn \in FuzzyCalls =>
                  /\ calls[i].arg = t_open_zzz
                  /\ ~StartsWith(calls[i].arg, w_http)
                  /\ ~Contains(calls[i].arg, w_dot)

\* "open zzzznotarealapp" matched no app and no site and was not opened
C14_Witness ==
    /\ last = "dispatched"
    /\ cmd = t_open_zzz
    /\ Unmatched = {t_open_zzz}
    /\ launches = << >>
    /\ said[Len(said)].msg = "Sorry, I don't know how to open {target}. Try saying the name more clearly."

\* whether every character of s is white space
IsBlank(s) == \A i \in 1..Len(s) : IsSpace(s[i])

\* the greatest of the scores
MaxScore(scores) ==
    CHOOSE m \in {scores[i] : i \in 1..Len(scores)} :
        \A i \in 1..Len(scores) : scores[i] <= m

\* the reference of the claim: no match for a blank query; else the first
\* candidate, in order, with the greatest score, if that score is 60 or more
C15_Reference(query, choices, scores) ==
    IF IsBlank(query) THEN None
    ELSE LET m     == MaxScore(scores)
             first == CHOOSE i \in 1..Len(choices) :
                          /\ scores[i] = m
                          /\ \A j \in 1..Len(choices) : scores[j] = m => i <= j
         IN  IF m >= 60 THEN Some(choices[first]) ELSE None

\* C15: for every query and every non-empty ordered candidate list, whatever
\* scores the candidates get, the result of fuzzy_match is that of the
\* reference; a blank query scores nothing; a greatest score of exactly 60 is
\* accepted and one of 59 is rejected; the query that is a candidate name is
\* resolved to that name.
C15_ResolverIsReference ==
    (last = "resolved") =>
      LET c == calls[1] IN
      /\ IsBlank(c.arg) => (c.scores = << >> /\ c.result = None)
      /\ ~IsBlank(c.arg) =>
            /\ Len(c.scores) = Len(c.choices)
            /\ c.result = C15_Reference(c.arg, c.choices, c.scores)
            /\ MaxScore(c.scores) = 60 => c.result # None
            /\ MaxScore(c.scores) = 59 => c.result = None
      /\ (\E i \in 1..Len(c.choices) : c.choices[i] = c.arg) => c.result = Some(c.arg)

\* two candidates share the greatest score, exactly 60, and the first of them
\* in order is the result
C15_Witness ==
    /\ last = "resolved"
    /\ Len(calls[1].choices) = 3
    /\ calls[1].scores = <<0, 60, 60>>
    /\ calls[1].result = Some(calls[1].choices[2])

\* the results of the calls of fn in the log of calls
ResultsOf(fn) == {calls[i].result : i \in {k \in 1..Len(calls) : calls[k].fn = fn}}

\* C16: for a plain-open command the dispatcher resolves the text against the
\* app names first and requests the launch of the app that matched; it
\* resolves against the site names only when no app matched, and takes the
\* text as an address only when neither matched; a text that is a name of both
\* vocabularies, such as "spotify", gets an app launch, never an open-URL
\* request.
C16_AppsThenSitesThenAddress ==
    (last = "dispatched" /\ parsed # << >> /\ parsed[1].platform = None) =>
      LET target == parsed[1].remaining.val
          apps   == ResultsOf("fuzzy_match_apps")
          sites  == ResultsOf("fuzzy_match_sites")
      IN
      /\ Cardinality(apps) = 1
      /\ \A i \in 1..Len(calls) : calls[i].fn \in FuzzyCalls => calls[i].arg = target
      /\ \A i \in 1..Len(calls) :
            calls[i].fn = "fuzzy_match_sites" =>
               \E j \in 1..(i - 1) : calls[j].fn = "fuzzy_match_apps" /\ calls[j].result = None
      /\ \A a \in apps : a # None =>
            /\ sites = {}
            /\ Len(launches) = 1
            /\ launches[1].op = "open_app"
            /\ launches[1].arg = Lookup(APP_MAP, a.val)
      /\ \A a \in apps : a = None =>
            /\ Cardinality(sites) = 1
            /\ \A w \in sites : w # None =>
                  /\ Len(launches) = 1
                  /\ launches[1].op = "open_website"
                  /\ launches[1].arg = Lookup(WEB_DEFAULTS, w.val)
            /\ \A w \in sites : w = None =>
                  IF IsAddress(target)
                  THEN /\ Len(launches) = 1
                       /\ launches[1].op = "open_website"
                       /\ launches[1].arg \in {target, w_https_prefix \o target}
                  ELSE launches = << >>
      /\ (HasKey(APP_MAP, target) /\ HasKey(WEB_DEFAULTS, target)) =>
            /\ Len(launches) = 1
            /\ launches[1].op = "open_app"
            /\ launches[1].arg = Lookup(APP_MAP, target)
            /\ sites = {}

\* "spotify", a name of both vocabularies, got an app launch
C16_Witness ==
    /\ last = "dispatched"
    /\ cmd = t_spotify
    /\ HasKey(APP_MAP, cmd) /\ HasKey(WEB_DEFAULTS, cmd)
    /\ Len(launches) = 1
    /\ launches[1].op = "open_app"
    /\ ResultsOf("fuzzy_match_sites") = {}

\* the narrations of open_command that report a launch as done
SuccessNarrations ==
    {"I've opened {platform} and searched for {query}",
     "{app_match} is now open",
     "{web_match} is now open in your browser",
     "Website is now open in your browser"}

\* the narrations of open_command that report a launch as failed
FailureNarrations ==
    {"Sorry, I couldn't search for {query} on {platform}",
     "Sorry, I couldn't open {app_match}. Make sure it's installed.",
     "Sorry, I couldn't open {web_match}. Please check your internet connection.",
     "Sorry, I don't know how to open {target}. Try saying the name more clearly."}

\* C17: after a dispatch that requested a launch operation (search URL, app,
\* site or direct address) the last narration is a success narration exactly
\* when the external operation reported success (the command ran, the browser
\* module returned True); when it reported failure the last narration is a
\* failure narration, and the loop is back at AwaitingWakeWord.
C17_NarrationFollowsOutcome ==
    (last = "dispatched" /\ Len(launches) = 1) =>
        LET succeeded == launches[1].result \in {"ok", "true"}
            final     == said[Len(said)].msg
        IN  /\ succeeded <=> (final \in SuccessNarrations)
            /\ ~succeeded => (final \in FailureNarrations)
            /\ \A i \in 1..Len(said) :
                  said[i].msg \in SuccessNarrations => succeeded
            /\ state = "AwaitingWakeWord"

\* the commands in the interpreter whose processing is unfinished: the one
\* the session loop dispatches and those of the requests in flight
InFlightCount ==
    (IF state = "Dispatching" THEN 1 ELSE 0)
    + Cardinality({i \in 1..MaxRequests : requests[i].pc \in InFlight})

C19_AcceptedCommandsAreDispatched ==
    (last = "dispatched" /\ ~IsHelp(cmd)) =>
        /\ Invoked({"open_command"})
        /\ Invoked({"parse_search_command"})
        /\ parsed # << >>
        /\ said[Len(said)].msg # "Please tell me what to open, or say help for assistance."
        /\ has_search(Strip(Lower(cmd))) => ~parsed[1].platform.isNone

C20_TableOrder ==  \* the platforms in the order of the claim
    << <<"y","o","u","t","u","b","e">>,  \* "youtube"
       <<"s","p","o","t","i","f","y">>,  \* "spotify"
       <<"g","o","o","g","l","e">>,  \* "google"
       <<"a","m","a","z","o","n">>,  \* "amazon"
       <<"n","e","t","f","l","i","x">> >>  \* "netflix"
C20_VideoWords ==  \* the words that make youtube the default
    << <<"v","i","d","e","o">>,  \* "video"
       <<"v","i","d","e","o","s">>,  \* "videos"
       <<"w","a","t","c","h">>,  \* "watch"
       <<"m","o","v","i","e">>,  \* "movie"
       <<"s","o","n","g">>,  \* "song"
       <<"m","u","s","i","c">> >>  \* "music"

\* the places in the table of the platforms named in the utterance u
NamedPlatforms(u) == {i \in 1..Len(C20_TableOrder) : Contains(u, C20_TableOrder[i])}

\* C20: for a search-intent utterance the parser's platform is a platform of
\* SEARCH_PATTERNS named in the utterance as given (lowercased, no filler word
\* removed) whenever one is named, and the first of the named ones in the
\* order youtube, spotify, google, amazon, netflix wherever they stand in the
\* utterance; when none is named it is youtube if the utterance contains
\* video, videos, watch, movie, song or music, and google otherwise.
C20_PlatformDetection ==
    /\ [i \in 1..Len(SEARCH_PATTERNS) |-> SEARCH_PATTERNS[i].key] = C20_TableOrder
    /\ (last = "parsed" /\ ~parsed[1].platform.isNone) =>
         LET u     == Strip(Lower(cmd))
             named == NamedPlatforms(u)
             p     == parsed[1].platform.val
         IN  /\ named # {} =>
                   \E i \in named : /\ p = C20_TableOrder[i]
                                    /\ \A j \in named : i <= j
             /\ named = {} =>
                   p = IF ContainsAny(u, C20_VideoWords)
                       THEN C20_TableOrder[1] ELSE C20_TableOrder[3]

\* "find amazon on google" names amazon before google and is parsed as a
\* search on google, the earlier of the two in the table
C20_Witness ==
    /\ last = "parsed"
    /\ cmd = t_find_amazon_google
    /\ NamedPlatforms(cmd) = {3, 4}
    /\ parsed[1].platform = Some(C20_TableOrder[3])

\* the words of s: its longest stretches without white space
Words(s) ==
    {SubSeq(s, p[1], p[2]) : p \in
        {q \in (1..Len(s)) \X (1..Len(s)) :
            /\ q[1] <= q[2]
            /\ \A n \in q[1]..q[2] : ~IsSpace(s[n])
            /\ (q[1] = 1 \/ IsSpace(s[q[1] - 1]))
            /\ (q[2] = Len(s) \/ IsSpace(s[q[2] + 1]))}}

\* the words that query extraction may remove: those of the search keywords,
\* the platform name and the stop words
Removable(platform) ==
    UNION {Words(search_keywords[i]) : i \in 1..Len(search_keywords)}
    \cup {platform}
    \cup {common_words[i] : i \in 1..Len(common_words)}

\* C21: query extraction removes the stop words and, for, some, a and the
\* only as whole words: every word of the utterance that is no search keyword,
\* not the platform name and no stop word stands unchanged in the extracted
\* query ("jazz" keeps its "a").
C21_WordsArePreserved ==
    (last = "parsed" /\ ~parsed[1].platform.isNone) =>
        LET u     == Strip(Lower(cmd))
            query == IF parsed[1].query.isNone THEN << >> ELSE parsed[1].query.val
        IN  \A w \in Words(u) :
               w \notin Removable(parsed[1].platform.val) => w \in Words(query)

\* C22: a dispatched command requests at most one external launch operation;
\* after a failed app launch no site is resolved or opened (not even the site
\* of the same name), and after a failed search nothing is resolved or
\* opened: the failure narration of the branch taken is the last announcement.
C22_AtMostOneLaunch ==
    (last = "dispatched") =>
        /\ Len(launches) <= 1
        /\ Len(launches) = 1 =>
              /\ launches[1].op = "open_with_search" <=> Invoked({"open_with_search"})
              /\ launches[1].op = "open_with_search" => ~Invoked(FuzzyCalls)
              /\ launches[1].op = "open_app" => ~Invoked({"fuzzy_match_sites", "open_with_search"})
              /\ (launches[1].op = "open_app" /\ ~open_app(launches[1].result)) =>
                    said[Len(said)].msg = "Sorry, I couldn't open {app_match}. Make sure it's installed."
              /\ (launches[1].op = "open_with_search" /\ ~open_website(launches[1].result)) =>
                    said[Len(said)].msg = "Sorry, I couldn't search for {query} on {platform}"

\* the launch of the app spotify failed and the site spotify was not tried
C22_Witness ==
    /\ last = "dispatched"
    /\ cmd = t_spotify
    /\ HasKey(WEB_DEFAULTS, cmd)
    /\ Len(launches) = 1
    /\ launches[1].op = "open_app"
    /\ launches[1].result = "FileNotFoundError"
    /\ ~Invoked({"fuzzy_match_sites"})

\* C23: the wake-phase text only gates the loop.  A wake-phase capture calls
\* neither handle_system_commands, the parser nor open_command, launches
\* nothing and never shuts down, whatever the utterance holds besides the wake
\* word; a dispatch passes the separately captured command, not the wake text,
\* to handle_system_commands, open_command and the parser, and shuts down
\* exactly when that command holds a shutdown synonym.
C23_WakeTextOnlyGates ==
    [][ /\ (state = "AwaitingWakeWord" /\ last' \notin {"interrupt", "error"}) =>
              /\ state' \in {"AwaitingWakeWord", "AwaitingCommand"}
              /\ state' = "AwaitingCommand" <=> (~NotHeard(text') /\ HasWakeWord(text'))
              /\ calls' = << >>
              /\ launches' = << >>
              /\ parsed' = << >>
              /\ \A i \in 1..Len(said') : said'[i].msg = "Yes, what would you like me to do?"
        /\ (state = "Dispatching" /\ last' # "interrupt") =>
              /\ text' = text
              /\ cmd' = cmd
              /\ calls'[1] = Call("handle_system_commands", cmd)
              /\ \A i \in 1..Len(calls') :
                    /\ calls'[i].fn \in {"handle_system_commands", "open_command"} =>
                          calls'[i].arg = cmd
                    /\ calls'[i].fn = "parse_search_command" =>
                          calls'[i].arg = Strip(Lower(cmd))
              /\ last' = "shutdown" <=> IsShutdown(cmd)
              /\ last' = "dispatched" <=> ~IsShutdown(cmd)
              /\ (\E i \in 1..Len(calls') : calls'[i].fn = "open_command") <=>
                    (~IsShutdown(cmd) /\ IsOpenOrSearch(cmd))
        /\ state' = "ShuttingDown" => (state = "Dispatching" \/ last' = "interrupt")
      ]_vars

\* "hey siri stop" woke the loop, the command "spotify" was then dispatched
\* and the loop is listening again
C23_Witness ==
    /\ last = "dispatched"
    /\ state = "AwaitingWakeWord"
    /\ text = t_hey_siri_stop
    /\ IsShutdown(text)
    /\ cmd = t_spotify
    /\ calls[1] = Call("handle_system_commands", t_spotify)
    /\ Invoked({"open_command"})
    /\ Len(launches) = 1
====
